---- MODULE Spec2Model ----
(***************************************************************************)
(* A model of bin/index_archival.py: the batch job that reads one night of *)
(* aggregated alerts, builds one secondary index view selected by the      *)
(* index-kind identifier (args.index_table) and pushes it to HBase.        *)
(*                                                                         *)
(* Strings that the code takes apart (the identifier) are sequences of     *)
(* one-character strings; strings that the code only builds or compares    *)
(* (column names, row keys, labels) are TLA+ strings.  A cell of a         *)
(* DataFrame is <<>> (SQL NULL) or <<v>>.                                  *)
(***************************************************************************)
EXTENDS Integers, Sequences, FiniteSets, TLC

VARIABLES
    night,               \* the night's aggregated alerts (the parquet files)
    tns_catalog,         \* what download_catalog returns
    marker_file,         \* TRUE iff <tns_folder>/tns_marker.txt exists
    api_key,             \* TRUE iff TNS_API_KEY is in os.environ
    index_table,         \* args.index_table of the current run
    pc,                  \* position of the current run in main()
    branch,              \* the branch of the if / elif chain the run entered
    df,                  \* main's variable df
    df_index,            \* main's variable df_index
    index_row_key_name,  \* main's variable index_row_key_name
    events,              \* external effects of the current run, in order
    hbase                \* the calls of push_to_hbase so far

vars == <<night, tns_catalog, marker_file, api_key, index_table, pc, branch, df,
          df_index, index_row_key_name, events, hbase>>

\* ------------------------------------------------------------------ bounds
MaxAlerts == 2
MaxCatalog == 2

\* ------------------------------------------------------------------- cells
None == <<>>
Some(v) == <<v>>
IsNull(c) == c = <<>>
Val(c) == c[1]

\* --------------------------------------------------- strings (Python str)
RECURSIVE Cat(_)
Cat(cs) == IF cs = <<>> THEN "" ELSE Head(cs) \o Cat(Tail(cs))

\* s.startswith(p)
StartsWith(s, p) == Len(s) >= Len(p) /\ SubSeq(s, 1, Len(p)) = p

\* p in s
Contains(s, p) ==
    \E i \in 1..(Len(s) - Len(p) + 1) : SubSeq(s, i, i + Len(p) - 1) = p

\* s.split(sep) for a non-empty separator sep: always at least one piece
RECURSIVE SplitFrom(_, _, _)
SplitFrom(s, sep, acc) ==
    IF s = <<>> THEN <<acc>>
    ELSE IF StartsWith(s, sep)
         THEN <<acc>> \o SplitFrom(SubSeq(s, Len(sep) + 1, Len(s)), sep, <<>>)
         ELSE SplitFrom(Tail(s), sep, Append(acc, Head(s)))

Split(s, sep) == SplitFrom(s, sep, <<>>)

Digits == <<"0", "1", "2", "3", "4", "5", "6", "7", "8", "9">>

DigitVal(c) == (CHOOSE i \in 1..10 : Digits[i] = c) - 1

IsDigits(s) == s # <<>> /\ \A i \in 1..Len(s) : \E k \in 1..10 : Digits[k] = s[i]

RECURSIVE DigitsVal(_)
DigitsVal(s) ==
    IF s = <<>> THEN 0 ELSE DigitsVal(SubSeq(s, 1, Len(s) - 1)) * 10 + DigitVal(s[Len(s)])

\* int(s): None stands for the ValueError
ParseInt(s) == IF IsDigits(s) THEN Some(DigitsVal(s)) ELSE None

U == <<"_">>
PIXEL == <<"p", "i", "x", "e", "l">>
UPPER == <<"u", "p", "p", "e", "r">>

\* ------------------------------------------------- main: lines 76 to 79
\* columns = index_row_key_name.split('_')
Columns(id) == Split(id, U)

\* names = [col(i) for i in columns], as column names
RECURSIVE CatAll(_)
CatAll(ts) == IF ts = <<>> THEN <<>> ELSE <<Cat(Head(ts))>> \o CatAll(Tail(ts))

Names(id) == CatAll(Columns(id))

\* index_name = '.' + columns[0]
IndexName(id) == "." \o Cat(Columns(id)[1])

\* args.science_db_name
ScienceDbName == "ztf"

\* ---------------------------------------------------------------- columns
\* common_cols, lines 106 to 122
common_cols ==
    <<"objectId", "candid", "publisher", "rcid", "chipsf", "distnr",
      "ra", "dec", "jd", "fid", "nid", "field", "xpos", "ypos", "rb",
      "ssdistnr", "ssmagnr", "ssnamenr", "jdstarthist", "jdendhist", "tooflag",
      "sgscore1", "distpsnr1", "neargaia", "maggaia", "nmtchps", "diffmaglim",
      "magpsf", "sigmapsf", "magnr", "sigmagnr", "magzpsci", "isdiffpos",
      "cdsxmatch", "roid", "mulens", "DR3Name", "Plx", "e_Plx", "gcvs", "vsx",
      "snn_snia_vs_nonia", "snn_sn_vs_all", "rf_snia_vs_nonia",
      "classtar", "drb", "ndethist", "rf_kn_vs_nonkn", "tracklet">>

Range(s) == {s[i] : i \in DOMAIN s}

\* cols_i + cols_d + cols_b of load_science_portal_column_names(): the
\* portal's columns, which every non-exploded branch projects from.
PortalCols == Range(common_cols)

\* The columns whose values the model carries; of the others only the name.
ScalarCols == {"objectId", "jd", "ra", "dec", "roid", "tracklet", "ssnamenr", "cdsxmatch"}

\* Columns whose cast to string is the decimal number.
NumericCols == {"jd", "ra", "dec", "roid", "fid", "magpsf", "sigmapsf", "diffmaglim"}

\* The arrays of prv_candidates selected at lines 94 to 98.
HistoryCols == {"jd", "fid", "magpsf", "sigmapsf", "diffmaglim"}

Restrict(f, S) == [x \in (DOMAIN f) \cap S |-> f[x]]

\* ------------------------------------------------------------- DataFrames
\* A DataFrame: its column names, and its rows as functions from the
\* carried column names to cells.
Frame(cols, rows) == [cols |-> cols, rows |-> rows]

\* What a branch hands on: the aliased row-key column, the other columns,
\* and rows [key, data].
Table(keycol, cols, rows) == [keycol |-> keycol, cols |-> cols, rows |-> rows]

Ok(t) == [ok |-> TRUE, out |-> t]
Fail(e) == [ok |-> FALSE, err |-> e]

RECURSIVE MapSeq(_, _)
MapSeq(Op(_), s) == IF s = <<>> THEN <<>> ELSE <<Op(Head(s))>> \o MapSeq(Op, Tail(s))

RECURSIVE FilterSeq(_, _)
FilterSeq(Test(_), s) ==
    IF s = <<>> THEN <<>>
    ELSE (IF Test(Head(s)) THEN <<Head(s)>> ELSE <<>>) \o FilterSeq(Test, Tail(s))

\* load_parquet_files(path), line 73: the night's records, with the
\* partitioning columns.
LoadParquet(n) ==
    Frame(PortalCols \cup {"prv_candidates", "year", "month", "day"}, n)

\* df.drop('year').drop('month').drop('day'), line 82
DropPartitioning(d) == Frame(d.cols \ {"year", "month", "day"}, d.rows)

\* One array of the history, prv_candidates.<f>: NULL when there is none.
HistoryArray(r, f) ==
    IF IsNull(r["prv_candidates"]) THEN None
    ELSE Some([i \in 1..Len(Val(r["prv_candidates"])) |-> Val(r["prv_candidates"])[i][f]])

\* The test of line 91 ('upper' in args.index_table), on the whole identifier
WantsHistory(id) == Contains(id, UPPER)

\* Lines 91 to 101: restrict the input to the wanted columns.
SelectWanted(d, id) ==
    IF WantsHistory(id)
    THEN LET row(r) == [c \in {"objectId"} \cup HistoryCols |->
                            IF c = "objectId" THEN r["objectId"] ELSE HistoryArray(r, c)]
         IN  Frame({"objectId"} \cup HistoryCols, MapSeq(row, d.rows))
    ELSE LET row(r) == Restrict(r, PortalCols)
         IN  Frame(PortalCols, MapSeq(row, d.rows))

\* attach_rowkey(df), line 104: adds the main table's rowkey column, which no
\* branch reads.
AttachRowkey(d) == Frame(d.cols \cup {"rowkey"}, d.rows)

\* ------------------------------------------------------------ concat_ws
\* The cast of a cell of column c to string; num: the numeric columns.
CastString(num, c, v) == IF c \in num THEN ToString(v) ELSE v

RECURSIVE JoinWs(_, _)
JoinWs(sep, strs) ==
    IF strs = <<>> THEN ""
    ELSE IF Len(strs) = 1 THEN strs[1]
    ELSE strs[1] \o sep \o JoinWs(sep, Tail(strs))

\* The non-NULL cells of row r in the columns names, cast to string.
RECURSIVE NonNullStrings(_, _, _)
NonNullStrings(r, names, num) ==
    IF names = <<>> THEN <<>>
    ELSE (IF IsNull(r[Head(names)]) THEN <<>>
          ELSE <<CastString(num, Head(names), Val(r[Head(names)]))>>)
         \o NonNullStrings(r, Tail(names), num)

\* concat_ws('_', *names) on row r: NULL cells are skipped.
ConcatWs(r, names, num) == JoinWs("_", NonNullStrings(r, names, num))

\* df.withColumn(c, value): adds or replaces column c.
WithColumn(d, c, value(_)) ==
    LET row(r) == [x \in (DOMAIN r) \cup {c} |-> IF x = c THEN value(r) ELSE r[x]]
    IN  Frame(d.cols \cup {c}, MapSeq(row, d.rows))

\* df.select([concat_ws('_', *names).alias(keycol)] + others): the analysis
\* fails when a column is not in the DataFrame.
SelectIndex(d, names, keycol, others, num) ==
    IF ~ (Range(names) \cup others \subseteq d.cols) THEN Fail("AnalysisException")
    ELSE LET row(r) == [key |-> ConcatWs(r, names, num), data |-> Restrict(r, others)]
         IN  Ok(Table(keycol, others, MapSeq(row, d.rows)))

\* df.filter(cond) where cond is a SQL comparison: a row is kept only when
\* the comparison is TRUE, so not when the cell is NULL.
FilterEq(d, c, v) ==
    LET keep(r) == ~ IsNull(r[c]) /\ Val(r[c]) = v
    IN  Frame(d.cols, FilterSeq(keep, d.rows))

FilterNeq(d, c, v) ==
    LET keep(r) == ~ IsNull(r[c]) /\ Val(r[c]) # v
    IN  Frame(d.cols, FilterSeq(keep, d.rows))

\* ---------------------------------------------------------- pixel branch
\* fink_broker.science.ang2pix: the HEALPix pixel of (ra, dec) at resolution
\* nside.  A deterministic stand-in on a grid of half arcseconds: the sky
\* cut in 4 * nside columns and as many rows of equal size.
ang2pix(ra, dec, nside) ==
    LET size == 648000 \div nside
    IN  (dec \div size) * (4 * nside) + (ra \div size)

\* A pixel branch whose key is the pixel index and the identifier itself
PixelBranchTokenKey(d, id) ==
    LET columns == Columns(id)
        nside == ParseInt(Split(columns[1], PIXEL)[2])
        row(r) == [key |-> ToString(ang2pix(Val(r["ra"]), Val(r["dec"]), Val(nside)))
                              \o "_" \o Cat(id),
                   data |-> Restrict(r, {"objectId"})]
    IN  IF IsNull(nside) THEN Fail("ValueError")
        ELSE IF ~ ({"ra", "dec"} \subseteq d.cols) THEN Fail("AnalysisException")
        ELSE Ok(Table(Cat(id), {"objectId"}, MapSeq(row, d.rows)))

\* Lines 124 to 138
PixelBranch(d, id) ==
    LET columns == Columns(id)
        nside == ParseInt(Split(columns[1], PIXEL)[2])
        pix(r) == IF IsNull(r["ra"]) \/ IsNull(r["dec"]) THEN None
                  ELSE Some(ang2pix(Val(r["ra"]), Val(r["dec"]), Val(nside)))
    IN  IF IsNull(nside) THEN Fail("ValueError")
        ELSE IF ~ ({"ra", "dec"} \subseteq d.cols) THEN Fail("AnalysisException")
        ELSE SelectIndex(WithColumn(d, Cat(columns[1]), pix), Names(id), Cat(id),
                         {"objectId"}, NumericCols \cup {Cat(columns[1])})

\* ---------------------------------------------------------- class branch
\* fink_filters.classification.extract_fink_classification: a stand-in that
\* reads three of its thirteen inputs.
extract_fink_classification(r) ==
    IF ~ IsNull(r["tracklet"]) /\ Val(r["tracklet"]) \notin {"", "null"} THEN Some("Tracklet")
    ELSE IF ~ IsNull(r["roid"]) /\ Val(r["roid"]) = 3 THEN Some("Solar System MPC")
    ELSE IF IsNull(r["cdsxmatch"]) THEN Some("Unknown")
    ELSE r["cdsxmatch"]

ClassInputs ==
    {"cdsxmatch", "roid", "mulens", "snn_snia_vs_nonia", "snn_sn_vs_all",
     "rf_snia_vs_nonia", "ndethist", "drb", "classtar", "jd", "jdstarthist",
     "rf_kn_vs_nonkn", "tracklet"}

\* Lines 139 to 161
ClassBranch(d, id) ==
    IF ~ (ClassInputs \subseteq d.cols) THEN Fail("AnalysisException")
    ELSE SelectIndex(WithColumn(d, "class", extract_fink_classification), Names(id),
                     Cat(id), Range(common_cols), NumericCols)

\* ------------------------------------------------------- ssnamenr branch
\* A branch that keeps every flagged record, roid 2 as well as 3
SsnamenrBranchAnyFlag(d, id) ==
    IF "roid" \notin d.cols THEN Fail("AnalysisException")
    ELSE SelectIndex(FilterNeq(d, "roid", 0), Names(id), Cat(id),
                     Range(common_cols), NumericCols)

\* Lines 162 to 170
SsnamenrBranch(d, id) ==
    IF "roid" \notin d.cols THEN Fail("AnalysisException")
    ELSE SelectIndex(FilterEq(d, "roid", 3), Names(id), Cat(id),
                     Range(common_cols), NumericCols)

\* ------------------------------------------------------- tracklet branch
\* A branch that knows only the older sentinel, ''
TrackletBranchOldSentinel(d, id) ==
    IF "tracklet" \notin d.cols THEN Fail("AnalysisException")
    ELSE SelectIndex(FilterNeq(d, "tracklet", ""),
                     Names(id), Cat(id), Range(common_cols), NumericCols)

\* Lines 171 to 181
TrackletBranch(d, id) ==
    IF "tracklet" \notin d.cols THEN Fail("AnalysisException")
    ELSE SelectIndex(FilterNeq(FilterNeq(d, "tracklet", "null"), "tracklet", ""),
                     Names(id), Cat(id), Range(common_cols), NumericCols)

\* -------------------------------------------------------- default branch
\* Lines 293 to 298
DefaultBranch(d, id) ==
    SelectIndex(d, Names(id), Cat(id), Range(common_cols), NumericCols)

\* ------------------------------------------- upper / uppervalid branches
ExplodedCols == {"objectId", "jd", "fid", "magpsf", "sigmapsf", "diffmaglim"}

\* An explode whose key leaves the time of the detection out
ExplodeRowObjectKey(r) ==
    IF \E c \in HistoryCols : IsNull(r[c]) THEN <<>>
    ELSE [i \in 1..Len(Val(r["jd"])) |->
            LET e == [c \in ExplodedCols |->
                        IF c = "objectId" THEN r["objectId"] ELSE Val(r[c])[i]]
            IN  [key |-> ConcatWs(e, <<"objectId">>, NumericCols), data |-> e]]

\* arrays_zip(...) then explode on one row: one row per element of the
\* history, none when the arrays are NULL; then the select of lines 191 to
\* 197, the key being concat_ws('_', 'objectId', 'tmp.jd').
ExplodeRow(r) ==
    IF \E c \in HistoryCols : IsNull(r[c]) THEN <<>>
    ELSE [i \in 1..Len(Val(r["jd"])) |->
            LET e == [c \in ExplodedCols |->
                        IF c = "objectId" THEN r["objectId"] ELSE Val(r[c])[i]]
            IN  [key |-> ConcatWs(e, <<"objectId", "jd">>, NumericCols), data |-> e]]

RECURSIVE FlatMap(_, _)
FlatMap(Op(_), s) == IF s = <<>> THEN <<>> ELSE Op(Head(s)) \o FlatMap(Op, Tail(s))

\* df_ex, lines 187 to 198 and 209 to 220
Explode(d) == FlatMap(ExplodeRow, d.rows)

DropCols(row, cs) == [key |-> row.key, data |-> Restrict(row.data, (DOMAIN row.data) \ cs)]

\* Lines 182 to 203
UpperBranch(d) ==
    IF ~ ({"objectId"} \cup HistoryCols \subseteq d.cols) THEN Fail("AnalysisException")
    ELSE LET isUpper(x) == ~ (~ IsNull(x.data["magpsf"]))
             drop(x) == DropCols(x, {"magpsf", "sigmapsf"})
         IN  Ok(Table("objectId_jd", ExplodedCols \ {"magpsf", "sigmapsf"},
                      MapSeq(drop, FilterSeq(isUpper, Explode(d)))))

\* A valid-measurement branch without its filter
UppervalidBranchKeepsAll(d) ==
    IF ~ ({"objectId"} \cup HistoryCols \subseteq d.cols) THEN Fail("AnalysisException")
    ELSE Ok(Table("objectId_jd", ExplodedCols, Explode(d)))

\* Lines 204 to 223
UppervalidBranch(d) ==
    IF ~ ({"objectId"} \cup HistoryCols \subseteq d.cols) THEN Fail("AnalysisException")
    ELSE LET isValid(x) == ~ IsNull(x.data["magpsf"])
         IN  Ok(Table("objectId_jd", ExplodedCols, FilterSeq(isValid, Explode(d))))

\* ------------------------------------------------------------ tns branch
\* 1.5 / 3600 degrees (line 265), in half arcseconds
SepLimit == 3

\* Angular separation, squared, on the grid of half arcseconds.
Sep2(ra1, dec1, ra2, dec2) == (ra1 - ra2) * (ra1 - ra2) + (dec1 - dec2) * (dec1 - dec2)

\* pdf_tns[~pdf_tns['type'].isna()], lines 231 and 232
TnsFiltered(cat) == LET typed(e) == ~ IsNull(e.type) IN FilterSeq(typed, cat)

\* catalog_ztf.match_to_catalog_sky(catalog_tns), line 262, for one alert:
\* the index of the nearest entry (the first of them) and its separation.
NearestIdx(ra, dec, cat) ==
    CHOOSE k \in 1..Len(cat) :
        /\ \A j \in 1..Len(cat) :
              Sep2(ra, dec, cat[k].ra, cat[k].declination)
                 <= Sep2(ra, dec, cat[j].ra, cat[j].declination)
        /\ \A j \in 1..(k - 1) :
              Sep2(ra, dec, cat[j].ra, cat[j].declination)
                 > Sep2(ra, dec, cat[k].ra, cat[k].declination)

\* sub_pdf['TNS'], lines 262 to 268: the type of the nearest entry when it is
\* closer than the limit, '' otherwise; by position in the batch.
SubPdfTns(rows, cat) ==
    [i \in 1..Len(rows) |->
        LET ra == Val(rows[i]["ra"])
            dec == Val(rows[i]["dec"])
            k == NearestIdx(ra, dec, cat)
        IN  IF Sep2(ra, dec, cat[k].ra, cat[k].declination) < SepLimit * SepLimit
            THEN Val(cat[k].type) ELSE ""]

\* to_return, lines 270 to 273: for each alert, the TNS value of the first
\* row of the batch that has its objectId.
ToReturn(rows, cat) ==
    LET tns == SubPdfTns(rows, cat)
    IN  [i \in 1..Len(rows) |->
            tns[CHOOSE j \in 1..Len(rows) :
                    /\ rows[j]["objectId"] = rows[i]["objectId"]
                    /\ \A k \in 1..(j - 1) : rows[k]["objectId"] # rows[i]["objectId"]]]

\* crossmatch_with_tns, lines 236 to 275, on the rows as one batch
crossmatch_with_tns(rows, cat) == ToReturn(rows, cat)

\* Lines 277 to 288: the tagged DataFrame (main's df from then on).  The
\* coordinate match raises on a catalog of length 0.
TnsTagged(d, id, cat) ==
    IF ~ ({"objectId", "ra", "dec"} \subseteq d.cols) THEN Fail("AnalysisException")
    ELSE IF d.rows # <<>> /\ TnsFiltered(cat) = <<>> THEN Fail("ValueError")
    ELSE LET labels == crossmatch_with_tns(d.rows, TnsFiltered(cat))
             tagged == Frame(d.cols \cup {"tns"},
                             [i \in 1..Len(d.rows) |->
                                [x \in (DOMAIN d.rows[i]) \cup {"tns"} |->
                                    IF x = "tns" THEN Some(labels[i]) ELSE d.rows[i][x]]])
         IN  SelectIndex(tagged, Names(id), Cat(id), Range(common_cols) \cup {"tns"},
                         NumericCols)

\* Line 289: df.filter(df['tns'] != '').drop('tns'); df['tns'] is ambiguous
\* when the key column is itself named tns.
TnsIndex(t) ==
    IF t.keycol = "tns" THEN Fail("AnalysisException")
    ELSE LET kept(x) == ~ IsNull(x.data["tns"]) /\ Val(x.data["tns"]) # ""
             drop(x) == DropCols(x, {"tns"})
         IN  Ok(Table(t.keycol, t.cols \ {"tns"}, MapSeq(drop, FilterSeq(kept, t.rows))))

\* ------------------------------------------------ index-kind identifiers
\* Values of args.index_table, as sequences of characters.
IdPixel128 == <<"p", "i", "x", "e", "l", "1", "2", "8">>

IdPixel128JdObjectId == <<"p", "i", "x", "e", "l", "1", "2", "8", "_", "j", "d", "_", "o", "b", "j", "e", "c", "t", "I", "d">>

IdPixel == <<"p", "i", "x", "e", "l">>

IdPixelfoo == <<"p", "i", "x", "e", "l", "f", "o", "o">>

IdClassJdObjectId == <<"c", "l", "a", "s", "s", "_", "j", "d", "_", "o", "b", "j", "e", "c", "t", "I", "d">>

IdSsnamenrJd == <<"s", "s", "n", "a", "m", "e", "n", "r", "_", "j", "d">>

IdTrackletObjectId == <<"t", "r", "a", "c", "k", "l", "e", "t", "_", "o", "b", "j", "e", "c", "t", "I", "d">>

IdUpperObjectIdJd == <<"u", "p", "p", "e", "r", "_", "o", "b", "j", "e", "c", "t", "I", "d", "_", "j", "d">>

IdUppervalidObjectIdJd == <<"u", "p", "p", "e", "r", "v", "a", "l", "i", "d", "_", "o", "b", "j", "e", "c", "t", "I", "d", "_", "j", "d">>

IdTnsJdObjectId == <<"t", "n", "s", "_", "j", "d", "_", "o", "b", "j", "e", "c", "t", "I", "d">>

IdTns == <<"t", "n", "s">>

IdObjectIdJd == <<"o", "b", "j", "e", "c", "t", "I", "d", "_", "j", "d">>

IdFoo == <<"f", "o", "o">>

IdClassUpper == <<"c", "l", "a", "s", "s", "_", "u", "p", "p", "e", "r">>

IdUpperfoo == <<"u", "p", "p", "e", "r", "f", "o", "o">>

CLASS == <<"c", "l", "a", "s", "s">>

SSNAMENR == <<"s", "s", "n", "a", "m", "e", "n", "r">>

TRACKLET == <<"t", "r", "a", "c", "k", "l", "e", "t">>

UPPERVALID == <<"u", "p", "p", "e", "r", "v", "a", "l", "i", "d">>

TNS == <<"t", "n", "s">>

Identifiers ==
    {IdPixel128, IdPixel128JdObjectId, IdPixel, IdPixelfoo, IdClassJdObjectId,
     IdSsnamenrJd, IdTrackletObjectId, IdUpperObjectIdJd, IdUppervalidObjectIdJd,
     IdTnsJdObjectId, IdTns, IdObjectIdJd, IdFoo, IdClassUpper, IdUpperfoo}

\* A chain that tests 'upper' as it tests 'pixel', by prefix
BranchOfUpperPrefix(id) ==
    LET first == Columns(id)[1]
    IN  IF StartsWith(first, PIXEL) THEN "pixel"
        ELSE IF first = CLASS THEN "class"
        ELSE IF first = SSNAMENR THEN "ssnamenr"
        ELSE IF first = TRACKLET THEN "tracklet"
        ELSE IF StartsWith(first, UPPER) THEN "upper"
        ELSE IF first = UPPERVALID THEN "uppervalid"
        ELSE IF first = TNS THEN "tns"
        ELSE "default"

\* The if / elif chain of lines 124, 139, 162, 171, 182, 204, 224 and 293,
\* on columns[0]: the branch that runs.
BranchOf(id) ==
    LET first == Columns(id)[1]
    IN  IF StartsWith(first, PIXEL) THEN "pixel"
        ELSE IF first = CLASS THEN "class"
        ELSE IF first = SSNAMENR THEN "ssnamenr"
        ELSE IF first = TRACKLET THEN "tracklet"
        ELSE IF first = UPPER THEN "upper"
        ELSE IF first = UPPERVALID THEN "uppervalid"
        ELSE IF first = TNS THEN "tns"
        ELSE "default"

\* ---------------------------------------------------------------- actions
NoFrame == Frame({}, <<>>)
NoTable == Table("", {}, <<>>)

\* Lines 50 to 104: the arguments, the read of the night's files, the split
\* of the identifier, the restriction to the wanted columns.
Start(id) ==
    /\ pc = "idle"
    /\ index_table' = id
    /\ index_row_key_name' = Cat(id)
    /\ df' = AttachRowkey(SelectWanted(DropPartitioning(LoadParquet(night)), id))
    /\ events' = <<"read">>
    /\ pc' = "dispatch"
    /\ branch' = ""
    /\ UNCHANGED <<night, tns_catalog, marker_file, api_key, df_index, hbase>>

\* An end of a branch that goes on to the push after an exception
FinishSwallow(res) ==
    /\ df_index' = (IF res.ok THEN res.out ELSE df_index)
    /\ pc' = "indexed"
    /\ events' = (IF res.ok THEN events ELSE Append(events, res.err))

\* The end of a branch: df_index is assigned, or the exception ends the run.
Finish(res) ==
    IF res.ok
    THEN /\ df_index' = res.out
         /\ pc' = "indexed"
         /\ events' = events
    ELSE /\ df_index' = df_index
         /\ pc' = "failed"
         /\ events' = Append(events, res.err)

Pixel ==
    /\ pc = "dispatch" /\ BranchOf(index_table) = "pixel"
    /\ branch' = "pixel"
    /\ Finish(PixelBranch(df, index_table))
    /\ UNCHANGED <<night, tns_catalog, marker_file, api_key, index_table, df,
                   index_row_key_name, hbase>>

Class ==
    /\ pc = "dispatch" /\ BranchOf(index_table) = "class"
    /\ branch' = "class"
    /\ Finish(ClassBranch(df, index_table))
    /\ UNCHANGED <<night, tns_catalog, marker_file, api_key, index_table, df,
                   index_row_key_name, hbase>>

Ssnamenr ==
    /\ pc = "dispatch" /\ BranchOf(index_table) = "ssnamenr"
    /\ branch' = "ssnamenr"
    /\ Finish(SsnamenrBranch(df, index_table))
    /\ UNCHANGED <<night, tns_catalog, marker_file, api_key, index_table, df,
                   index_row_key_name, hbase>>

Tracklet ==
    /\ pc = "dispatch" /\ BranchOf(index_table) = "tracklet"
    /\ branch' = "tracklet"
    /\ Finish(TrackletBranch(df, index_table))
    /\ UNCHANGED <<night, tns_catalog, marker_file, api_key, index_table, df,
                   index_row_key_name, hbase>>

\* The row-key name the exploded branches set at lines 185 and 207
ExplodedRowKeyName == "objectId_jd"

Upper ==
    /\ pc = "dispatch" /\ BranchOf(index_table) = "upper"
    /\ branch' = "upper"
    /\ index_row_key_name' = ExplodedRowKeyName
    /\ Finish(UpperBranch(df))
    /\ UNCHANGED <<night, tns_catalog, marker_file, api_key, index_table, df, hbase>>

Uppervalid ==
    /\ pc = "dispatch" /\ BranchOf(index_table) = "uppervalid"
    /\ branch' = "uppervalid"
    /\ index_row_key_name' = ExplodedRowKeyName
    /\ Finish(UppervalidBranch(df))
    /\ UNCHANGED <<night, tns_catalog, marker_file, api_key, index_table, df, hbase>>

\* Lines 225 and 226: open(<tns_folder>/tns_marker.txt)
TnsMarker ==
    /\ pc = "dispatch" /\ BranchOf(index_table) = "tns"
    /\ branch' = "tns"
    /\ IF marker_file
       THEN pc' = "tns_marker" /\ events' = events
       ELSE pc' = "failed" /\ events' = Append(events, "FileNotFoundError")
    /\ UNCHANGED <<night, tns_catalog, marker_file, api_key, index_table, df,
                   df_index, index_row_key_name, hbase>>

\* Line 228: download_catalog(os.environ['TNS_API_KEY'], tns_marker)
TnsDownload ==
    /\ pc = "tns_marker"
    /\ UNCHANGED branch
    /\ IF api_key
       THEN pc' = "tns_catalog" /\ events' = Append(events, "download")
       ELSE pc' = "failed" /\ events' = Append(events, "KeyError")
    /\ UNCHANGED <<night, tns_catalog, marker_file, api_key, index_table, df,
                   df_index, index_row_key_name, hbase>>

\* Lines 230 to 292: the cross-match, the filter and the count
TnsCrossmatch ==
    /\ pc = "tns_catalog"
    /\ UNCHANGED branch
    /\ LET tagged == TnsTagged(df, index_table, tns_catalog)
       IN  IF ~ tagged.ok
           THEN /\ pc' = "failed" /\ events' = Append(events, tagged.err)
                /\ UNCHANGED <<df, df_index>>
           ELSE IF ~ TnsIndex(tagged.out).ok
           THEN /\ pc' = "failed"
                /\ events' = Append(events, TnsIndex(tagged.out).err)
                /\ df' = tagged.out
                /\ UNCHANGED df_index
           ELSE /\ pc' = "indexed" /\ events' = Append(events, "count")
                /\ df' = tagged.out
                /\ df_index' = TnsIndex(tagged.out).out
    /\ UNCHANGED <<night, tns_catalog, marker_file, api_key, index_table,
                   index_row_key_name, hbase>>

Default ==
    /\ pc = "dispatch" /\ BranchOf(index_table) = "default"
    /\ branch' = "default"
    /\ Finish(DefaultBranch(df, index_table))
    /\ UNCHANGED <<night, tns_catalog, marker_file, api_key, index_table, df,
                   index_row_key_name, hbase>>

\* A call that names the table after the whole identifier
PushCallFullName(id, rowkeyname, t) ==
    [table_name |-> ScienceDbName \o "." \o Cat(id), rowkeyname |-> rowkeyname, df |-> t]

\* The arguments of the call of lines 300 to 306
PushCall(id, rowkeyname, t) ==
    [table_name |-> ScienceDbName \o IndexName(id), rowkeyname |-> rowkeyname, df |-> t]

\* Lines 300 to 306: push_to_hbase
Push ==
    /\ pc = "indexed"
    /\ hbase' = Append(hbase, PushCall(index_table, index_row_key_name, df_index))
    /\ events' = Append(events, "write")
    /\ pc' = "done"
    /\ UNCHANGED branch
    /\ UNCHANGED <<night, tns_catalog, marker_file, api_key, index_table, df,
                   df_index, index_row_key_name>>

\* ------------------------------------------------------------ the inputs
ObjectIds == {"ZTF21aaa", "ZTF21bbb"}

\* One alert record of the aggregated science data.
Alert(o, j, ra, dec, roid, trk, ssn, cds, prv) ==
    [objectId |-> Some(o), jd |-> Some(j), ra |-> Some(ra), dec |-> Some(dec),
     roid |-> roid, tracklet |-> trk, ssnamenr |-> ssn, cdsxmatch |-> cds,
     prv_candidates |-> prv]

\* One element of prv_candidates, at time t: an upper limit when magpsf is
\* NULL, a measurement otherwise.
Prv(t, magpsf) ==
    [jd |-> Some(t), fid |-> Some(1 + (t % 2)), magpsf |-> magpsf,
     sigmapsf |-> IF IsNull(magpsf) THEN None ELSE Some(1), diffmaglim |-> Some(19 + t)]

Magnitudes == {None, Some(18)}

\* The histories an alert of time j can carry: none (NULL), or the k times
\* before j in order, each an upper limit or a measurement.
HistoryOfLen(j, k) ==
    {[i \in 1..k |-> Prv(j - k + i - 1, ms[i])] : ms \in [1..k -> Magnitudes]}

Histories(j) ==
    {None} \cup UNION {{Some(h) : h \in HistoryOfLen(j, k)} : k \in 0..(j - 1)}

SeqsUpTo(S, n) == UNION {[1..k -> S] : k \in 0..n}

Plain(o, j, ra, dec, prv) ==
    Alert(o, j, ra, dec, Some(0), Some(""), Some("null"), Some("Unknown"), prv)

InitWith(nights, catalogs, markers, keys) ==
    /\ night \in nights
    /\ tns_catalog \in catalogs
    /\ marker_file \in markers
    /\ api_key \in keys
    /\ index_table = <<>>
    /\ index_row_key_name = ""
    /\ pc = "idle"
    /\ branch = ""
    /\ df = NoFrame
    /\ df_index = NoTable
    /\ events = <<>>
    /\ hbase = <<>>

\* A catalog entry of the Transient Name Server
TnsEntry(ra, dec, type) == [ra |-> ra, declination |-> dec, type |-> type]

\* ---------------------------------------- the job, over every identifier
AlertsMain ==
    {Plain(o, 3, 0, 0, Some(<<Prv(1, None), Prv(2, Some(18))>>)) : o \in ObjectIds}
    \cup {Alert(o, 2, 0, 0, Some(3), Some("null"), Some("1234"), Some("Unknown"), None) :
             o \in ObjectIds}
    \cup {Alert(o, 2, 0, 0, Some(0), Some("TRCK1"), Some("null"), Some("Unknown"), None) :
             o \in ObjectIds}

CatalogsMain == {<<>>, <<TnsEntry(0, 0, Some("SN Ia"))>>}

Init == InitWith(SeqsUpTo(AlertsMain, MaxAlerts), CatalogsMain, BOOLEAN, BOOLEAN)

Next ==
    \/ \E id \in Identifiers : Start(id)
    \/ Pixel
    \/ Class
    \/ Ssnamenr
    \/ Tracklet
    \/ Upper
    \/ Uppervalid
    \/ TnsMarker
    \/ TnsDownload
    \/ TnsCrossmatch
    \/ Default
    \/ Push

Spec == Init /\ [][Next]_vars

\* ------------------------------------------------------------- the claims
\* The first underscore-delimited token of an identifier, read off the
\* identifier itself.
FirstToken(id) ==
    IF \E i \in 1..Len(id) : id[i] = "_"
    THEN SubSeq(id, 1, (CHOOSE i \in 1..Len(id) :
                            id[i] = "_" /\ \A j \in 1..(i - 1) : id[j] # "_") - 1)
    ELSE id

NamedKinds == {CLASS, SSNAMENR, TRACKLET, UPPER, UPPERVALID, TNS}

\* pixel<N>: 'pixel' followed by the digits of N
IsPixelN(t) == StartsWith(t, PIXEL) /\ IsDigits(SubSeq(t, 6, Len(t)))

\* C4, as stated: the first token selects the branch, pixel<N> and the six
\* names being the recognized kinds, and a first token that matches none of
\* them runs the default branch.
C4_Original ==
    branch # "" =>
        branch = (IF IsPixelN(FirstToken(index_table)) THEN "pixel"
                  ELSE IF FirstToken(index_table) \in NamedKinds
                       THEN Cat(FirstToken(index_table))
                  ELSE "default")

\* C4, amended: dispatch is total and exclusive on the first token alone; the
\* pixel branch is selected by the prefix 'pixel', not by pixel<N>; a first
\* token with that prefix whose part after it is not an integer ends the run
\* with a ValueError and no write; any other first token that is none of the
\* six names runs the default branch.
C4_Dispatch ==
    /\ pc \notin {"idle", "dispatch"} => branch # ""
    /\ branch # "" =>
          branch = (IF StartsWith(FirstToken(index_table), PIXEL) THEN "pixel"
                    ELSE IF FirstToken(index_table) \in NamedKinds
                         THEN Cat(FirstToken(index_table))
                    ELSE "default")
    /\ (branch = "pixel" /\ ~ IsDigits(Split(FirstToken(index_table), PIXEL)[2])) =>
          /\ pc = "failed"
          /\ events = <<"read", "ValueError">>
          /\ hbase = <<>>

C4_Witness ==
    /\ index_table = IdPixelfoo /\ branch = "pixel" /\ pc = "failed"

\* C8: the table written is <science_db_name>.<first token>; the row-key
\* name passed is the whole identifier, or objectId_jd for the two exploded
\* kinds; the pushed table has its row-key column under exactly that name.
C8_TableAndKey ==
    pc = "done" =>
        LET call == hbase[Len(hbase)]
        IN  /\ call.table_name = ScienceDbName \o "." \o Cat(FirstToken(index_table))
            /\ call.rowkeyname = (IF branch \in {"upper", "uppervalid"}
                                  THEN "objectId_jd" ELSE Cat(index_table))
            /\ call.df.keycol = call.rowkeyname

C8_Witness ==
    /\ pc = "done" /\ branch = "upper" /\ index_table = IdUpperObjectIdJd
    /\ hbase[1].table_name = "ztf.upper" /\ hbase[1].rowkeyname = "objectId_jd"
    /\ hbase[1].df.rows # <<>>

\* C9: a run that completes made exactly one write, last, after the read
\* (and in the tns branch after the download and the count); a run that
\* fails made none; a missing marker file or credential fails only the tns
\* branch.
C9_AllOrNothing ==
    /\ pc = "done" =>
          /\ events = (IF branch = "tns" THEN <<"read", "download", "count", "write">>
                       ELSE <<"read", "write">>)
          /\ Len(hbase) = 1
    /\ pc # "done" => hbase = <<>> /\ "write" \notin Range(events)
    /\ (pc = "failed" /\ events[Len(events)] \in {"FileNotFoundError", "KeyError"}) =>
          branch = "tns"
    /\ pc = "failed" =>
          events[Len(events)] \in
              {"FileNotFoundError", "KeyError", "ValueError", "AnalysisException"}

C9_Witness ==
    /\ pc = "failed" /\ branch = "tns" /\ marker_file /\ ~ api_key
    /\ events = <<"read", "KeyError">> /\ hbase = <<>>

\* The columns each branch reads, beside those the identifier names
BranchReads(b) ==
    CASE b = "pixel" -> {"ra", "dec", "objectId"}
      [] b = "class" -> ClassInputs \cup Range(common_cols)
      [] b = "ssnamenr" -> {"roid"} \cup Range(common_cols)
      [] b = "tracklet" -> {"tracklet"} \cup Range(common_cols)
      [] b \in {"upper", "uppervalid"} -> {"objectId"} \cup HistoryCols
      [] b = "tns" -> {"objectId", "ra", "dec"} \cup Range(common_cols)
      [] OTHER -> Range(common_cols)

\* C10, as stated: the input is restricted to objectId and the history
\* arrays if and only if the branch that runs is upper or uppervalid, so the
\* branch that runs has every column it reads.
C10_Original ==
    branch # "" =>
        /\ ("ra" \notin df.cols) <=> (branch \in {"upper", "uppervalid"})
        /\ BranchReads(branch) \subseteq df.cols

\* --------------------------------------------------- the pixel index alone
AlertsPixel ==
    {Plain(o, 1, ra, dec, None) : o \in ObjectIds, ra \in {0, 6000, 20000}, dec \in {0, 6000}}

PixelIdentifiers == {IdPixel128, IdPixel128JdObjectId}

InitPixel == InitWith(SeqsUpTo(AlertsPixel, MaxAlerts), {<<>>}, {TRUE}, {TRUE})

NextPixel ==
    \/ \E id \in PixelIdentifiers : Start(id)
    \/ Pixel
    \/ Push

SpecPixel == InitPixel /\ [][NextPixel]_vars

\* The resolution N of pixel<N>, read off the identifier
NsideOf(id) == DigitsVal(SubSeq(FirstToken(id), 6, Len(FirstToken(id))))

PixelOf(a, id) == ToString(ang2pix(Val(a.ra), Val(a.dec), NsideOf(id)))

\* C5, as stated: one row per alert, the key being the pixel index, "_" and
\* the identifier's token(s) ("<pixelid>_pixel128" for pixel128), the only
\* other column the object identifier.
C5_Original ==
    (pc = "done" /\ branch = "pixel") =>
        LET t == hbase[1].df
        IN  /\ Len(t.rows) = Len(night)
            /\ t.cols = {"objectId"}
            /\ \A i \in 1..Len(night) :
                  /\ t.rows[i].key = PixelOf(night[i], index_table) \o "_" \o Cat(index_table)
                  /\ t.rows[i].data = [c \in {"objectId"} |-> night[i].objectId]

\* C5, amended: one row per alert, the only other column the object
\* identifier; the key is the pixel index followed by "_" and the VALUES of
\* the columns the further tokens name (for pixel128_jd_objectId:
\* <pixelid>_<jd>_<objectId>); for pixel128 the key is "<pixelid>" alone.
C5_PixelRows ==
    (pc = "done" /\ branch = "pixel") =>
        LET t == hbase[1].df
        IN  /\ Len(t.rows) = Len(night)
            /\ t.cols = {"objectId"}
            /\ t.keycol = Cat(index_table)
            /\ \A i \in 1..Len(night) :
                  /\ t.rows[i].data = [c \in {"objectId"} |-> night[i].objectId]
                  /\ index_table = IdPixel128 =>
                        t.rows[i].key = PixelOf(night[i], index_table)
                  /\ index_table = IdPixel128JdObjectId =>
                        t.rows[i].key = PixelOf(night[i], index_table) \o "_"
                                           \o ToString(Val(night[i].jd)) \o "_"
                                           \o Val(night[i].objectId)

C5_Witness ==
    /\ pc = "done" /\ branch = "pixel" /\ index_table = IdPixel128
    /\ Len(night) = 1 /\ Len(hbase[1].df.rows) = 1
    /\ night[1].ra = Some(6000) /\ night[1].dec = Some(6000)
    /\ hbase[1].df.rows[1].key = "513"

\* ------------------------------------------- the two filtering branches
AlertsFilter ==
    {Alert(o, 1, 0, 0, roid, trk, Some("1234"), Some("Unknown"), None) :
        o \in ObjectIds,
        roid \in {None, Some(2), Some(3)},
        trk \in {None, Some(""), Some("null"), Some("TRCK1")}}

FilterIdentifiers == {IdSsnamenrJd, IdTrackletObjectId}

InitFilter == InitWith(SeqsUpTo(AlertsFilter, MaxAlerts), {<<>>}, {TRUE}, {TRUE})

NextFilter ==
    \/ \E id \in FilterIdentifiers : Start(id)
    \/ Ssnamenr
    \/ Tracklet
    \/ Push

SpecFilter == InitFilter /\ [][NextFilter]_vars

\* The projection of an alert on the columns whose values are carried
Projected(a) == [c \in ScalarCols |-> a[c]]

HasTracklet(a) == ~ IsNull(a.tracklet) /\ Val(a.tracklet) # "" /\ Val(a.tracklet) # "null"

IsMpc(a) == ~ IsNull(a.roid) /\ Val(a.roid) = 3

\* C6: in the tracklet index an alert appears, once, if and only if its
\* tracklet is not NULL, not "" and not "null".
C6_TrackletRows ==
    (pc = "done" /\ branch = "tracklet") =>
        LET rows == hbase[1].df.rows
            want == SelectSeq(night, HasTracklet)
        IN  /\ Len(rows) = Len(want)
            /\ \A i \in 1..Len(want) : rows[i].data = Projected(want[i])

C6_Witness ==
    /\ pc = "done" /\ branch = "tracklet" /\ Len(night) = 2
    /\ Len(hbase[1].df.rows) = 1
    /\ \E i \in 1..2 : night[i].tracklet \in {None, Some(""), Some("null")}

\* C7: the rows of the ssnamenr index are exactly the alerts whose roid is
\* 3, each once.
C7_SsnamenrRows ==
    (pc = "done" /\ branch = "ssnamenr") =>
        LET rows == hbase[1].df.rows
            want == SelectSeq(night, IsMpc)
        IN  /\ Len(rows) = Len(want)
            /\ \A i \in 1..Len(want) : rows[i].data = Projected(want[i])

C7_Witness ==
    /\ pc = "done" /\ branch = "ssnamenr" /\ Len(night) = 2
    /\ Len(hbase[1].df.rows) = 1
    /\ \E i \in 1..2 : night[i].roid \in {None, Some(2)}

\* ------------------------------- the exploded history and the main key
AlertsUpper ==
    UNION {{Plain(o, j, 0, 0, h) : o \in ObjectIds, h \in Histories(j)} : j \in {2, 3}}

UpperIdentifiers == {IdUpperObjectIdJd, IdUppervalidObjectIdJd, IdObjectIdJd}

InitUpper == InitWith(SeqsUpTo(AlertsUpper, MaxAlerts), {<<>>}, {TRUE}, {TRUE})

NextUpper ==
    \/ \E id \in UpperIdentifiers : Start(id)
    \/ Upper
    \/ Uppervalid
    \/ Default
    \/ Push

SpecUpper == InitUpper /\ [][NextUpper]_vars

\* The alerts of the night are pairwise distinct in (objectId, jd).
DistinctAlerts ==
    \A i, j \in 1..Len(night) :
        (night[i].objectId = night[j].objectId /\ night[i].jd = night[j].jd) => i = j

KeysUnique(rows) == \A i, j \in 1..Len(rows) : rows[i].key = rows[j].key => i = j

RECURSIVE HistoryRows(_)
HistoryRows(n) ==
    IF n = <<>> THEN <<>>
    ELSE (IF IsNull(Head(n).prv_candidates) THEN <<>>
          ELSE [i \in 1..Len(Val(Head(n).prv_candidates)) |->
                  [objectId |-> Head(n).objectId,
                   prv |-> Val(Head(n).prv_candidates)[i]]])
         \o HistoryRows(Tail(n))

IsLimit(x) == IsNull(x.prv.magpsf)

IsMeasure(x) == ~ IsNull(x.prv.magpsf)

\* What identifies an exploded row in either output
RowIdentity(key, objectId, e) ==
    <<key, objectId, e["jd"], e["fid"], e["diffmaglim"]>>

WantIdentity(x) ==
    RowIdentity(Val(x.objectId) \o "_" \o ToString(Val(x.prv.jd)), x.objectId, x.prv)

AlertsTns ==
    {Plain(o, p[2], p[1], 0, None) :
        o \in ObjectIds, p \in {<<0, 1>>, <<2, 2>>, <<4, 3>>, <<10, 4>>}}

TnsEntries ==
    {TnsEntry(ra, 0, type) : ra \in {0, 10}, type \in {None, Some("SN Ia"), Some("SN II")}}

TnsIdentifiers == {IdTnsJdObjectId, IdTns}

InitTns ==
    InitWith(SeqsUpTo(AlertsTns, MaxAlerts), SeqsUpTo(TnsEntries, MaxCatalog), {TRUE}, {TRUE})

NextTns ==
    \/ \E id \in TnsIdentifiers : Start(id)
    \/ TnsMarker
    \/ TnsDownload
    \/ TnsCrossmatch
    \/ Push

SpecTns == InitTns /\ [][NextTns]_vars

\* A typed catalog entry closer than 1.5 arcseconds to the row's own position
Within(data, e) ==
    /\ ~ IsNull(e.type)
    /\ Sep2(Val(data["ra"]), Val(data["dec"]), e.ra, e.declination) < SepLimit * SepLimit

\* C2, as stated: every alert that is kept was tagged with a non-empty type,
\* the type of a catalog entry closer than 1.5 arcseconds to the alert's own
\* position; an alert with no catalog entry that close is tagged '' and is
\* not kept.  The alerts of a batch need not differ in objectId.
C2_Original ==
    (pc \in {"indexed", "done"} /\ branch = "tns") =>
        /\ \A i \in 1..Len(df.rows) :
              LET data == df.rows[i].data
              IN  /\ Val(data["tns"]) # "" =>
                        \E k \in 1..Len(tns_catalog) :
                            /\ Within(data, tns_catalog[k])
                            /\ tns_catalog[k].type = data["tns"]
                  /\ (\A k \in 1..Len(tns_catalog) : ~ Within(data, tns_catalog[k])) =>
                        Val(data["tns"]) = ""
        /\ LET kept(x) == Val(x.data["tns"]) # ""
               want == SelectSeq(df.rows, kept)
           IN  /\ Len(df_index.rows) = Len(want)
               /\ \A i \in 1..Len(want) : df_index.rows[i].key = want[i].key
====
